---- MODULE Spec2Model ----
(***************************************************************************)
(* State-machine model of justkd/uidmanager: the RFC 4122 version-4        *)
(* identifier generator (src/src/lib/uid.ts) and the association manager   *)
(* that owns one generator and one Map (src/unnamed/part_002, the 1.1.1    *)
(* UIDManager source, lines 133-431).                                      *)
(*                                                                         *)
(* A JavaScript string is a sequence of one-character strings, so that     *)
(* toLowerCase and the validation pattern are computed character by        *)
(* character.  The Map is a sequence of <<key, uid>> pairs in insertion    *)
(* order, the ledger (`generated`) a sequence of identifier strings.       *)
(***************************************************************************)
EXTENDS Integers, Sequences, FiniteSets, TLC

\* ------------------------------------------------------------------------
\* Bounds of the model
\* ------------------------------------------------------------------------

\* generate is only started while the ledger is shorter than this.
MaxLedger == 3

\* restore and setExisting are called with at most this many elements.
MaxBatch == 2

\* ------------------------------------------------------------------------
\* Values of the host language
\* ------------------------------------------------------------------------

\* The three keys the manager rejects.
Undefined == "<undefined>"
Null == "<null>"
NaN == "<NaN>"
InvalidKeys == {Undefined, Null, NaN}

\* Keys the caller uses (value-like keys, compared by value).
ValidKeys == {"a", "b"}
Keys == ValidKeys \cup InvalidKeys

\* No generateUIDFor call in progress.
NoKey == "<none>"

\* Identifier strings the caller passes to set, restore, deleteUID and
\* setExisting.  IdA is the identifier of the README, IdALow its lowercase
\* form, IdF the uppercase form of IdFLow, which the random source can
\* produce, IdBad has version digit 5.
IdA == <<"A","A","9","7","B","1","7","7","-","9","3","8","3","-","4","9","3","4","-","8","5","4","3","-","0","F","9","1","A","7","A","0","2","8","3","6">>
IdALow == <<"a","a","9","7","b","1","7","7","-","9","3","8","3","-","4","9","3","4","-","8","5","4","3","-","0","f","9","1","a","7","a","0","2","8","3","6">>
IdF == <<"F","F","F","F","F","F","F","F","-","F","F","F","F","-","4","F","F","F","-","B","F","F","F","-","F","F","F","F","F","F","F","F","F","F","F","F">>
IdBad == <<"a","a","9","7","b","1","7","7","-","9","3","8","3","-","5","9","3","4","-","8","5","4","3","-","0","f","9","1","a","7","a","0","2","8","3","6">>
IdFLow == <<"f","f","f","f","f","f","f","f","-","f","f","f","f","-","4","f","f","f","-","b","f","f","f","-","f","f","f","f","f","f","f","f","f","f","f","f">>
CallerIds == {IdA, IdALow, IdF, IdBad}

\* A third well-formed identifier, one that generate can return as well.
IdR == <<"7","8","5","6","3","4","1","2","-","6","7","4","5","-","4","3","0","1","-","b","c","9","a","-","7","8","5","6","8","9","6","7","4","5","2","3">>

\* Outputs of the random source: four 32-bit values, written as the int32
\* image that the operators >> and & of formatUid work on (-1 is the image
\* of 0xffffffff).  The last two tuples differ only in bits that formatUid
\* masks away, so they format to the same identifier.
RandomValues == { <<-1, -1, -1, -1>>,
                  <<305419896, 19088743, 1450744508, 591751049>>,
                  <<305419896, 22234471, 1450744572, 591751049>> }

\* ------------------------------------------------------------------------
\* Strings
\* ------------------------------------------------------------------------

Digits == {"0","1","2","3","4","5","6","7","8","9"}
LowerHex == {"a","b","c","d","e","f"}
UpperHex == {"A","B","C","D","E","F"}

\* [0-9A-F] under the flag i.
HexChars == Digits \cup LowerHex \cup UpperHex

\* [89AB] under the flag i.
VariantChars == {"8", "9", "a", "b", "A", "B"}

\* String.prototype.toLowerCase on one character of the model's alphabet.
LowerChar(c) ==
  CASE c = "A" -> "a" [] c = "B" -> "b" [] c = "C" -> "c"
    [] c = "D" -> "d" [] c = "E" -> "e" [] c = "F" -> "f"
    [] OTHER -> c

\* String.prototype.toLowerCase, character by character.
LowerChars(s) == [i \in 1..Len(s) |-> LowerChar(s[i])]

includes(arr, x) == \E i \in 1..Len(arr) : arr[i] = x

\* The strings of an array, each in lower case.
LowerChars2(arr) == [i \in 1..Len(arr) |-> LowerChars(arr[i])]

\* ------------------------------------------------------------------------
\* The identifier generator (uid.ts)
\* ------------------------------------------------------------------------

HexDigit == <<"0","1","2","3","4","5","6","7","8","9","a","b","c","d","e","f">>

\* Number.prototype.toString(16) for 0..255.
toString16(i) ==
  IF i < 16 THEN <<HexDigit[i + 1]>>
            ELSE <<HexDigit[(i \div 16) + 1], HexDigit[(i % 16) + 1]>>

\* lookup[i] = (i < 16 ? "0" : "") + i.toString(16)
lookup(i) == (IF i < 16 THEN <<"0">> ELSE <<>>) \o toString16(i)

\* (x >> n) & 0xff on an int32: arithmetic shift, then the low byte.
ShiftAndFF(x, n) == (x \div (2 ^ n)) % 256

\* Mutant of versionByte: the version nibble is not forced.
versionByteUnforced(x) == ShiftAndFF(x, 16)

\* ((x >> 16) & 0x0f) | 0x40: the low nibble of the byte, under the version
\* nibble 0100.
versionByte(x) == ((x \div (2 ^ 16)) % 16) + 64

\* (x & 0x3f) | 0x80: the low six bits, under the variant bits 10.
variantByte(x) == (x % 64) + 128

\* formatUid(values): the sixteen bytes v[0]..v[15] through the lookup table,
\* joined as v0v1v2v3-v4v5-v6v7-v8v9-v10v11v12v13v14v15.  The version byte is
\* ((values[1] >> 16) & 0x0f) | 0x40, the variant byte (values[2] & 0x3f) | 0x80.
formatUid(values) ==
     lookup(ShiftAndFF(values[1], 0))
  \o lookup(ShiftAndFF(values[1], 8))
  \o lookup(ShiftAndFF(values[1], 16))
  \o lookup(ShiftAndFF(values[1], 24))
  \o <<"-">>
  \o lookup(ShiftAndFF(values[2], 0))
  \o lookup(ShiftAndFF(values[2], 8))
  \o <<"-">>
  \o lookup(versionByte(values[2]))
  \o lookup(ShiftAndFF(values[2], 24))
  \o <<"-">>
  \o lookup(variantByte(values[3]))
  \o lookup(ShiftAndFF(values[3], 8))
  \o <<"-">>
  \o lookup(ShiftAndFF(values[3], 16))
  \o lookup(ShiftAndFF(values[3], 24))
  \o lookup(ShiftAndFF(values[4], 0))
  \o lookup(ShiftAndFF(values[4], 8))
  \o lookup(ShiftAndFF(values[4], 16))
  \o lookup(ShiftAndFF(values[4], 24))

\* The match of a string against
\* /^[0-9A-F]{8}-[0-9A-F]{4}-4[0-9A-F]{3}-[89AB][0-9A-F]{3}-[0-9A-F]{12}$/i,
\* character by character.
reMatches(id) ==
  /\ Len(id) = 36
  /\ \A i \in 1..36 :
       CASE i \in {9, 14, 19, 24} -> id[i] = "-"
         [] i = 15 -> id[i] = "4"
         [] i = 20 -> id[i] \in VariantChars
         [] OTHER -> id[i] \in HexChars

\* Every string of the model: what the caller passes, what the random source
\* can make generate return, and their lowercase forms.
Strings ==
  UNION { {s, LowerChars(s)} :
          s \in CallerIds \cup {IdFLow} \cup {formatUid(values) : values \in RandomValues} }

\* LowerChars and reMatches, computed once for every string of the model.
LowerTable == [s \in Strings |-> LowerChars(s)]
MatchTable == [s \in Strings |-> reMatches(s)]

\* Mutant of toLowerCase: the string is returned as it is.
toLowerCaseKeepsCase(s) == s

\* v.toLowerCase()
toLowerCase(s) == LowerTable[s]

\* re.test(id)
reTest(id) == MatchTable[id]

\* null and undefined where an identifier is expected.
NullId == <<Null>>
UndefinedId == <<Undefined>>
NonStrings == {NullId, UndefinedId}

\* Mutant of validator: the identifiers that match are returned in lower case.
validatorLowercases(arr) ==
  LowerChars2(SelectSeq(arr, LAMBDA id : id # <<>> /\ id # NullId /\ reTest(id)))

\* validator(ids) for an array: arr.filter((id) => id && re.test(id)); ""
\* and null are falsy.
validator(arr) == SelectSeq(arr, LAMBDA id : id # <<>> /\ id # NullId /\ reTest(id))

\* validator(ids) for a single string: "" is falsy and gives [], any other
\* string is wrapped into a one-element array.
validateString(id) == IF id = <<>> THEN <<>> ELSE validator(<<id>>)

\* Mutant of setExisting: the candidates that validate are kept when others fail.
setExistingPartial(gen, ids) ==
  LET validated == validator(ids)
  IN  IF Len(validated) = Len(ids)
        THEN [generated |-> validated, ret |-> TRUE]
        ELSE [generated |-> validated, ret |-> FALSE]

\* setExisting(ids): the new ledger and the returned boolean.
setExisting(gen, ids) ==
  LET validated == validator(ids)
  IN  IF Len(validated) = Len(ids)
        THEN [generated |-> validated, ret |-> TRUE]
        ELSE [generated |-> gen, ret |-> FALSE]

\* Mutant of generateRejects: every candidate is taken for a duplicate.
generateAlwaysRejects(gen, id) == TRUE

\* Mutant of generateRejects: the ledger is not consulted.
generateNeverRejects(gen, id) == FALSE

\* The loop condition of generate for a candidate id: generated.includes(id)
generateRejects(gen, id) == includes(gen, id)


\* Mutant of generateStep: the accepted identifier is not pushed to the ledger.
generateStepNoPush(gen, values) ==
  LET id == formatUid(values)
  IN  IF generateRejects(gen, id)
        THEN [done |-> FALSE, generated |-> gen, id |-> id]
        ELSE [done |-> TRUE, generated |-> gen, id |-> id]

\* Mutant of generateStep: the accepted identifier is put at the front of the
\* ledger.
generateStepUnshift(gen, values) ==
  LET id == formatUid(values)
  IN  IF generateRejects(gen, id)
        THEN [done |-> FALSE, generated |-> gen, id |-> id]
        ELSE [done |-> TRUE, generated |-> <<id>> \o gen, id |-> id]

\* One iteration of the loop of generate, `while (!id || generated.includes(id))
\* id = gen()`, for the values the random source returns in that iteration:
\* either the candidate is rejected and the loop goes on, or it is pushed to
\* the ledger and returned.
generateStep(gen, values) ==
  LET id == formatUid(values)
  IN  IF generateRejects(gen, id)
        THEN [done |-> FALSE, generated |-> gen, id |-> id]
        ELSE [done |-> TRUE, generated |-> Append(gen, id), id |-> id]

\* Mutant of UID: the initial ledger is validated as setExisting would.
UIDValidated(uids) == validator(uids)

\* uid(uids), which the manager imports as UID: let generated = uids || [],
\* for an array uids.
UID(uids) == uids

\* Mutant of getExisting: the ledger itself is returned.
getExistingLive(gen) == [ref |-> "generated", val |-> <<>>]

\* getExisting(): [...generated], a new array with the entries of the ledger.
\* ref tells what the returned value is: "copy", an array of its own whose
\* entries are val, or the name of the object of the program it refers to.
getExisting(gen) == [ref |-> "copy", val |-> gen]

\* ------------------------------------------------------------------------
\* The Map of the manager: <<key, uid>> pairs in insertion order
\* ------------------------------------------------------------------------

mapKeys(m) == [i \in 1..Len(m) |-> m[i][1]]
mapValues(m) == [i \in 1..Len(m) |-> m[i][2]]
mapHas(m, k) == \E i \in 1..Len(m) : m[i][1] = k
mapIndex(m, k) == CHOOSE i \in 1..Len(m) : m[i][1] = k
mapGet(m, k) == m[mapIndex(m, k)][2]
mapDelete(m, k) == SelectSeq(m, LAMBDA e : e[1] # k)

\* Mutant of mapSet: a present key is moved to the end.
mapSetMoves(m, k, v) == Append(SelectSeq(m, LAMBDA e : e[1] # k), <<k, v>>)

\* Map.prototype.set: a present key keeps its position and gets the new
\* value, a new key is appended.
mapSet(m, k, v) ==
  IF mapHas(m, k) THEN [m EXCEPT ![mapIndex(m, k)] = <<k, v>>]
                  ELSE Append(m, <<k, v>>)

\* ------------------------------------------------------------------------
\* Return values and diagnostics
\* ------------------------------------------------------------------------

RetNone == [tag |-> "none", id |-> <<>>]
RetTrue == [tag |-> "true", id |-> <<>>]
RetFalse == [tag |-> "false", id |-> <<>>]
RetNull == [tag |-> "null", id |-> <<>>]
RetVoid == [tag |-> "undefined", id |-> <<>>]
RetUid(u) == [tag |-> "uid", id |-> u]
RetBool(b) == IF b THEN RetTrue ELSE RetFalse
RetKey(k) == [tag |-> "key", id |-> <<k>>]
\* The call returned an array or the Map: the caller holds it.
RetHeld == [tag |-> "held", id |-> <<>>]

\* onError(name, e, msg): what the call wrote to the console.  The record
\* keeps the operation name and the fixed part of the message (msg, or the
\* text of the thrown Error when no msg is passed).
NoLog == [name |-> "", msg |-> ""]
onError(name, msg) == [name |-> name, msg |-> msg]

defaultMsg == "All values must be valid RFC4122 version 4 compliant unique identifiers."
keyMsg == "Keys must not be null, undefined, or NaN."
dupMsg == "Duplicate UID found"
existsMsg == "UID already exists."

RetThrown == [tag |-> "thrown", id |-> <<>>]
typeErrorMsg == "TypeError: Cannot read properties of null or undefined (reading 'toLowerCase')"

\* Mutant of caught: the exception leaves the call.
uncaught(m, gen, name) ==
  [map |-> m, generated |-> gen, ret |-> RetThrown, log |-> NoLog]

\* try { ... } catch (e) { onError(name, e); return null; } when the body
\* threw before it changed anything.
caught(m, gen, name) ==
  [map |-> m, generated |-> gen, ret |-> RetNull, log |-> onError(name, typeErrorMsg)]

\* `!x` where x is the array returned by generator.validate: an array is an
\* object, and every object is truthy, the empty array included.
notArray(arr) == FALSE

\* Mutant of isBadKey: null is not tested for.
isBadKeyNoNull(k) == k = Undefined \/ k = NaN

\* Mutant of isBadKey: NaN is not tested for.
isBadKeyNoNaN(k) == k = Undefined \/ k = Null

\* k === undefined || k === null || Number.isNaN(k)
isBadKey(k) == k = Undefined \/ k = Null \/ k = NaN

\* ------------------------------------------------------------------------
\* The association manager (UIDManager)
\* ------------------------------------------------------------------------

\* Mutant of generateUIDForThrows: NaN is not tested for.
generateUIDForThrowsNoNaN(key) ==
  IF key = Undefined THEN "Keys must not be undefined."
  ELSE IF key = Null THEN "Keys must not be null."
  ELSE ""

\* generateUIDFor, the checks before generator.generate(): the message of
\* the Error thrown for the key, "" when none is thrown.
generateUIDForThrows(key) ==
  IF key = Undefined THEN "Keys must not be undefined."
  ELSE IF key = Null THEN "Keys must not be null."
  ELSE IF key = NaN THEN "Keys must not be NaN."
  ELSE ""

\* Mutant of generateUIDForStore: the table is cleared before the key is set.
generateUIDForStoreAlone(m, key, uid) == mapSet(<<>>, key, uid)

\* Mutant of generateUIDForStore: map.delete(key) is left out.
generateUIDForStoreInPlace(m, key, uid) == mapSet(m, key, uid)

\* generateUIDFor after generator.generate() returned uid:
\* if (map.has(key)) map.delete(key); map.set(key, uid)
generateUIDForStore(m, key, uid) ==
  mapSet(IF mapHas(m, key) THEN mapDelete(m, key) ELSE m, key, uid)

\* Mutant of restoreEntries: the identifiers are taken as given.
restoreEntriesAsGiven(entries) == entries

\* restore: const $entries = entries.map(([k, v]) => [k, v.toLowerCase()])
restoreEntries(entries) ==
  [i \in 1..Len(entries) |-> <<entries[i][1], toLowerCase(entries[i][2])>>]

\* restore: the callback of $entries.every for the entry [k, v], where bank
\* holds the identifiers of the entries before it.  The message of the
\* diagnostic when the callback returns false, "" when it returns true.
restoreFault(k, v, bank) ==
  IF includes(bank, v) THEN dupMsg
  ELSE IF notArray(validateString(v)) THEN defaultMsg
  ELSE IF isBadKey(k) THEN keyMsg
  ELSE ""

RECURSIVE every(_, _, _)
\* $entries.every(callback) from index i on: the message of the first entry
\* the callback returns false for, "" when it returns true for all.  An entry
\* that passes the duplicate test is pushed to bank.
every(es, i, bank) ==
  IF i > Len(es) THEN ""
  ELSE IF restoreFault(es[i][1], es[i][2], bank) # ""
    THEN restoreFault(es[i][1], es[i][2], bank)
    ELSE every(es, i + 1, Append(bank, es[i][2]))

RECURSIVE forEachSet(_, _)
\* $entries.forEach(([k, v]) => map.set(k, v))
forEachSet(m, es) ==
  IF es = <<>> THEN m
  ELSE forEachSet(mapSet(m, Head(es)[1], Head(es)[2]), Tail(es))

\* Mutant of restoreCommit: the ledger gets the identifiers the table ends
\* up with.
restoreCommitLedgerOfTable(m, gen, es) ==
  [map |-> forEachSet(<<>>, es),
   generated |-> setExisting(gen, mapValues(forEachSet(<<>>, es))).generated]

\* Mutant of restoreCommit: map.clear() is left out.
restoreCommitNoClear(m, gen, es) ==
  [map |-> forEachSet(m, es),
   generated |-> setExisting(gen, mapValues(es)).generated]

\* restore after validation succeeded: map.clear(); generator.setExisting(...);
\* $entries.forEach(...).  The result of setExisting is not looked at.
restoreCommit(m, gen, es) ==
  [map |-> forEachSet(<<>>, es),
   generated |-> setExisting(gen, mapValues(es)).generated]

\* v.toLowerCase() throws for an entry of the batch: v is null or undefined.
restoreThrows(entries) == \E i \in 1..Len(entries) : entries[i][2] \in NonStrings

restore(m, gen, entries) ==
  IF restoreThrows(entries) THEN caught(m, gen, "restore") ELSE
  LET es == restoreEntries(entries)
      fault == every(es, 1, <<>>)
  IN  IF fault # ""
        THEN [map |-> m, generated |-> gen, ret |-> RetFalse,
              log |-> onError("restore", fault)]
        ELSE LET c == restoreCommit(m, gen, es)
             IN  [map |-> c.map, generated |-> c.generated, ret |-> RetTrue,
                  log |-> NoLog]

\* Mutant of setFault: the ledger of the generator is not consulted.
setFaultTableOnly(m, gen, k, v) ==
  IF notArray(validateString(v)) THEN defaultMsg
  ELSE IF isBadKey(k) THEN keyMsg
  ELSE IF includes(mapValues(m), v) THEN existsMsg
  ELSE ""

\* set: the three checks in their order; the message of the diagnostic of
\* the first one that fails, "" when the entry is accepted.
setFault(m, gen, k, v) ==
  IF notArray(validateString(v)) THEN defaultMsg
  ELSE IF isBadKey(k) THEN keyMsg
  ELSE IF includes(mapValues(m), v) \/ includes(gen, v) THEN existsMsg
  ELSE ""

\* Mutant of set: the identifier that is stored is pushed to the ledger.
setRecords(m, gen, key, uid) ==
  IF uid \in NonStrings THEN caught(m, gen, "set") ELSE
  LET k == key
      v == toLowerCase(uid)
      fault == setFault(m, gen, k, v)
  IN  IF fault # ""
        THEN [map |-> m, generated |-> gen, ret |-> RetFalse,
              log |-> onError("set", fault)]
        ELSE [map |-> mapSet(IF mapHas(m, k) THEN mapDelete(m, k) ELSE m, k, v),
              generated |-> Append(gen, v), ret |-> RetTrue, log |-> NoLog]

\* Mutant of set: the identifier is stored in the letter case it was passed in.
setKeepsCase(m, gen, key, uid) ==
  LET k == key
      v == toLowerCase(uid)
      fault == setFault(m, gen, k, v)
  IN  IF fault # ""
        THEN [map |-> m, generated |-> gen, ret |-> RetFalse,
              log |-> onError("set", fault)]
        ELSE [map |-> mapSet(IF mapHas(m, k) THEN mapDelete(m, k) ELSE m, k, uid),
              generated |-> gen, ret |-> RetTrue, log |-> NoLog]

set(m, gen, key, uid) ==
  IF uid \in NonStrings THEN caught(m, gen, "set") ELSE
  LET k == key
      v == toLowerCase(uid)
      fault == setFault(m, gen, k, v)
  IN  IF fault # ""
        THEN [map |-> m, generated |-> gen, ret |-> RetFalse,
              log |-> onError("set", fault)]
        ELSE [map |-> mapSet(IF mapHas(m, k) THEN mapDelete(m, k) ELSE m, k, v),
              generated |-> gen, ret |-> RetTrue, log |-> NoLog]

\* Mutant of findIndex: letter case is ignored in the comparison.
findIndexIgnoringCase(m, uid) ==
  IF \E i \in 1..Len(m) : LowerChars(m[i][2]) = LowerChars(uid)
    THEN CHOOSE i \in 1..Len(m) :
           /\ LowerChars(m[i][2]) = LowerChars(uid)
           /\ \A j \in 1..(i - 1) : LowerChars(m[j][2]) # LowerChars(uid)
    ELSE 0

\* Mutant of findIndex: the last entry with the identifier is found.
findIndexLast(m, uid) ==
  IF \E i \in 1..Len(m) : m[i][2] = uid
    THEN CHOOSE i \in 1..Len(m) :
           m[i][2] = uid /\ \A j \in (i + 1)..Len(m) : m[j][2] # uid
    ELSE 0

\* entries.findIndex((e) => uid === e[1]), 0 when there is none.
findIndex(m, uid) ==
  IF \E i \in 1..Len(m) : m[i][2] = uid
    THEN CHOOSE i \in 1..Len(m) :
           m[i][2] = uid /\ \A j \in 1..(i - 1) : m[j][2] # uid
    ELSE 0

deleteUID(m, uid) ==
  LET i == findIndex(m, uid)
  IN  IF i = 0 THEN [map |-> m, ret |-> RetFalse]
               ELSE [map |-> mapDelete(m, m[i][1]), ret |-> RetTrue]

\* Mutant of deleteUIDFor: true is returned without map.delete(key).
deleteUIDForKeeps(m, key) ==
  IF ~mapHas(m, key) THEN [map |-> m, ret |-> RetFalse]
                     ELSE [map |-> m, ret |-> RetTrue]

deleteUIDFor(m, key) ==
  IF ~mapHas(m, key) THEN [map |-> m, ret |-> RetFalse]
                     ELSE [map |-> mapDelete(m, key), ret |-> RetTrue]

deleteAll(m) == <<>>

\* Mutant of getMap: a copy of the Map is returned.
getMapCopy(m) == [ref |-> "copy", val |-> m]

\* getMap(): the Map itself.
getMap(m) == [ref |-> "map", val |-> <<>>]

\* A new array with the given entries, as Array.from and filter return.
newArray(arr) == [ref |-> "copy", val |-> arr]

\* validate(uids): generator.validate(uids), which returns [] for null,
\* undefined and "", wraps another string into an array, and filters; it
\* does not throw on these inputs, so the catch branch is not taken.
validate(input) ==
  CASE input.kind \in {"null", "undefined"} -> <<>>
    [] input.kind = "string" -> validateString(input.val)
    [] input.kind = "array" -> validator(input.val)

\* The queries.
getUIDFor(m, key) == IF mapHas(m, key) THEN RetUid(mapGet(m, key)) ELSE RetNull
getKeyFor(m, uid) == IF findIndex(m, uid) = 0 THEN Undefined ELSE m[findIndex(m, uid)][1]
hasUIDFor(m, key) == mapHas(m, key)
hasKeyFor(m, uid) == includes(mapValues(m), uid)
keys(m) == mapKeys(m)
uids(m) == mapValues(m)
entries(m) == m


\* ------------------------------------------------------------------------
\* State
\* ------------------------------------------------------------------------

VARIABLES
  map,          \* the Map of the manager
  generated,    \* the ledger of the generator
  pc,           \* "idle", or the call whose generate loop is running
  pending,      \* the key of the generateUIDFor call in progress
  last,         \* the last call: its name and what it returned
  log,          \* the diagnostic the last call wrote, NoLog if none
  retried,      \* history: the generate loop of the last call rejected a candidate
  issued,       \* history: every identifier generate has returned so far
  issuedSince,  \* history: those returned since a call last replaced the ledger
  prior,        \* history: the generateUIDFor call that returned last, if no
                \* other call was made since
  returned,     \* history: the ledger the generator was created with and
                \* the identifiers generate returned, in call order, while
                \* only generate was called (fresh: and it was created empty)
  created,      \* history: the keys of the table, in the order in which their
                \* present associations were created
  inserted,     \* history: the keys of the table, in the order in which they
                \* were inserted since they were last absent from it
  held,         \* the caller: the value a call returned to it earlier
  movedBy       \* history: the calls, of generateUIDFor and set, that have
                \* replaced the association of the first of three keys

prog == <<map, generated, pc, pending, last, log>>
hist == <<retried, issued, issuedSince, prior, returned, created, inserted, held,
          movedBy>>
vars == <<map, generated, pc, pending, last, log, retried, issued, issuedSince,
          prior, returned, created, inserted, held, movedBy>>

\* ------------------------------------------------------------------------
\* Inputs
\* ------------------------------------------------------------------------

\* Identifiers the random source can make generate return.
RandomIds == {formatUid(values) : values \in RandomValues}

\* Arguments of deleteUID and of the queries by identifier.
UidArgs == CallerIds \cup RandomIds

\* Sequences over S of length at most n.
SeqUpTo(S, n) == UNION {[1..l -> S] : l \in 0..n}

\* The pairs the batches of restore are made of.
RestoreEntries == { <<"a", IdA>>, <<"b", IdALow>>, <<"b", IdF>>, <<"a", IdBad>>,
                    <<NaN, IdA>>, <<Undefined, IdALow>>, <<Null, IdF>> }

\* Arguments of restore.
Batches == SeqUpTo(RestoreEntries, MaxBatch)

\* Those whose keys are all valid.
ValidKeyBatches == {batch \in Batches : \A i \in 1..Len(batch) : batch[i][1] \in ValidKeys}

\* Arguments of restore where the order of the table is at stake: a batch
\* can name a key twice, with different identifiers.
OrderEntries == { <<"a", IdA>>, <<"b", IdF>>, <<"a", IdR>> }
OrderBatches == SeqUpTo(OrderEntries, MaxBatch + 1)

\* Arguments of validate: null, undefined, a string, or an array of strings
\* and nulls.
ScalarInputs ==
  {[kind |-> "null", val |-> <<>>], [kind |-> "undefined", val |-> <<>>]}
    \cup {[kind |-> "string", val |-> id] : id \in CallerIds \cup {IdFLow, <<>>}}
ArrayInputs ==
  {[kind |-> "array", val |-> arr] :
     arr \in SeqUpTo({IdA, IdFLow, IdBad, <<>>, NullId}, MaxBatch + 1)}

\* What a caller writes through the Map it holds: any key with any string.
HandleKeys == {"a", NaN}
HandleIds == {IdF, IdBad}

\* How a caller changes an array it holds.
Mutations == {"push", "pop", "reverse"}

\* Arguments of set and restore where an identifier may be null or undefined.
AnyIds == {IdA, IdF, IdBad} \cup NonStrings
AnyEntries == { <<"a", IdA>>, <<"b", IdF>>, <<"b", NullId>>, <<NaN, UndefinedId>> }
AnyBatches == SeqUpTo(AnyEntries, MaxBatch)

\* Keys and identifiers for a table of three associations.
MoreKeys == ValidKeys \cup {"c"}
MoreIds == {IdA, IdF, IdR}

\* Arguments of setExisting.
IdLists == SeqUpTo(CallerIds \cup {IdFLow}, MaxBatch)

\* 32-bit values of the random source that formatUid is checked on, as int32
\* images: all bits clear, all bits set, the largest and the smallest int32
\* (0x7fffffff and 0x80000000), and 0x12345678.
FormatWords == {0, -1, 2147483647, -2147483647 - 1, 305419896}
FormatValues == [1..4 -> FormatWords]

\* Values of the random source for the loop of generate when its return is
\* at stake: they give more distinct identifiers (two by RandomValues, and
\* one by each of the others) than a ledger holds when generate is called,
\* as the 2^122 identifiers of the program exceed what a ledger can hold.
LiveValues == RandomValues \cup {<<i, i, i, i>> : i \in 1..(MaxLedger - 2)}

\* Ledgers a generator is constructed with when it resumes: some hold a
\* string that is no identifier, or an identifier in upper case.
ResumeLedgers == {<<>>, <<IdFLow>>, <<IdF>>, <<IdBad, IdFLow>>}

\* Ledgers a generator is constructed with.
InitialLedgers == {<<>>, <<IdALow>>, <<IdFLow>>}

\* ------------------------------------------------------------------------
\* The operations of the manager on the program state
\* ------------------------------------------------------------------------

InitProg ==
  /\ map = <<>>
  /\ generated = <<>>
  /\ pc = "idle"
  /\ pending = NoKey
  /\ last = [op |-> "UIDManager", ret |-> RetNone]
  /\ log = NoLog

\* No generateUIDFor call has just returned.
NoPrior == [key |-> NoKey, id |-> <<>>, repeat |-> FALSE]

\* The caller holds nothing.
NoArg == [kind |-> "none", val |-> <<>>]
NoHeld == [op |-> "none", arg |-> NoArg, ref |-> "none", val |-> <<>>]

InitHist ==
  /\ retried = FALSE
  /\ issued = {}
  /\ issuedSince = {}
  /\ prior = NoPrior
  /\ returned = [fresh |-> generated = <<>>, ids |-> <<>>,
                 initial |-> generated, only |-> TRUE]
  /\ created = <<>>
  /\ inserted = <<>>
  /\ held = NoHeld
  /\ movedBy = {}

\* generateUIDFor(key) up to the call of generator.generate(): a bad key
\* throws, is caught and logged, and null is returned; with any other key
\* the loop of generate is entered.
GenerateUIDFor(key) ==
  /\ pc = "idle"
  /\ IF generateUIDForThrows(key) # ""
       THEN /\ last' = [op |-> "generateUIDFor", ret |-> RetNull]
            /\ log' = onError("generateUIDFor", generateUIDForThrows(key))
            /\ UNCHANGED <<map, generated, pc, pending>>
       ELSE /\ Len(generated) < MaxLedger
            /\ pc' = "generateUIDFor"
            /\ pending' = key
            /\ last' = [op |-> "generateUIDFor", ret |-> RetNone]
            /\ log' = NoLog
            /\ UNCHANGED <<map, generated>>

\* One iteration of the loop of generate inside generateUIDFor, and, when
\* the candidate is accepted, the rest of generateUIDFor.
GenerateUIDForLoop(values) ==
  /\ pc = "generateUIDFor"
  /\ \E r \in {generateStep(generated, values)} :
       IF r.done
           THEN /\ generated' = r.generated
                /\ map' = generateUIDForStore(map, pending, r.id)
                /\ last' = [op |-> "generateUIDFor", ret |-> RetUid(r.id)]
                /\ pc' = "idle"
                /\ pending' = NoKey
                /\ UNCHANGED log
           ELSE UNCHANGED prog

Set(key, uid) ==
  /\ pc = "idle"
  /\ \E r \in {set(map, generated, key, uid)} :
       /\ map' = r.map
       /\ generated' = r.generated
       /\ last' = [op |-> "set", ret |-> r.ret]
       /\ log' = r.log
  /\ UNCHANGED <<pc, pending>>

Restore(batch) ==
  /\ pc = "idle"
  /\ \E r \in {restore(map, generated, batch)} :
       /\ map' = r.map
       /\ generated' = r.generated
       /\ last' = [op |-> "restore", ret |-> r.ret]
       /\ log' = r.log
  /\ UNCHANGED <<pc, pending>>

DeleteUID(uid) ==
  /\ pc = "idle"
  /\ \E r \in {deleteUID(map, uid)} :
       /\ map' = r.map
       /\ last' = [op |-> "deleteUID", ret |-> r.ret]
  /\ log' = NoLog
  /\ UNCHANGED <<generated, pc, pending>>

\* Mutant of DeleteUIDFor: the identifier of the key leaves the ledger too.
DeleteUIDForForgets(key) ==
  /\ pc = "idle"
  /\ \E r \in {deleteUIDFor(map, key)} :
       /\ map' = r.map
       /\ last' = [op |-> "deleteUIDFor", ret |-> r.ret]
  /\ generated' = SelectSeq(generated, LAMBDA id : getUIDFor(map, key) # RetUid(id))
  /\ log' = NoLog
  /\ UNCHANGED <<pc, pending>>

DeleteUIDFor(key) ==
  /\ pc = "idle"
  /\ \E r \in {deleteUIDFor(map, key)} :
       /\ map' = r.map
       /\ last' = [op |-> "deleteUIDFor", ret |-> r.ret]
  /\ log' = NoLog
  /\ UNCHANGED <<generated, pc, pending>>

DeleteAll ==
  /\ pc = "idle"
  /\ map' = deleteAll(map)
  /\ last' = [op |-> "deleteAll", ret |-> RetVoid]
  /\ log' = NoLog
  /\ UNCHANGED <<generated, pc, pending>>

\* The queries of the manager. Those that return an array return RetHeld;
\* the array is what the caller holds after the call.
GetUIDForDeletes(key) ==
  /\ pc = "idle"
  /\ last' = [op |-> "getUIDFor", ret |-> getUIDFor(map, key)]
  /\ map' = mapDelete(map, key)
  /\ log' = NoLog
  /\ UNCHANGED <<generated, pc, pending>>

GetUIDFor(key) ==
  /\ pc = "idle"
  /\ last' = [op |-> "getUIDFor", ret |-> getUIDFor(map, key)]
  /\ log' = NoLog
  /\ UNCHANGED <<map, generated, pc, pending>>

GetKeyFor(uid) ==
  /\ pc = "idle"
  /\ last' = [op |-> "getKeyFor", ret |-> RetKey(getKeyFor(map, uid))]
  /\ log' = NoLog
  /\ UNCHANGED <<map, generated, pc, pending>>

HasUIDFor(key) ==
  /\ pc = "idle"
  /\ last' = [op |-> "hasUIDFor", ret |-> RetBool(hasUIDFor(map, key))]
  /\ log' = NoLog
  /\ UNCHANGED <<map, generated, pc, pending>>

HasKeyFor(uid) ==
  /\ pc = "idle"
  /\ last' = [op |-> "hasKeyFor", ret |-> RetBool(hasKeyFor(map, uid))]
  /\ log' = NoLog
  /\ UNCHANGED <<map, generated, pc, pending>>

\* keys(), uids(), entries(), validate(input), getMap(), and getExisting()
\* of the generator: the part of the call on the program state.
Returns(op) ==
  /\ pc = "idle"
  /\ last' = [op |-> op, ret |-> RetHeld]
  /\ log' = NoLog
  /\ UNCHANGED <<map, generated, pc, pending>>

\* The caller holds what the call returned.
Holds(op, arg, r) ==
  /\ held' = [op |-> op, arg |-> arg, ref |-> r.ref, val |-> r.val]
  /\ UNCHANGED <<retried, issued, issuedSince, prior, returned, created, inserted,
               movedBy>>

QueryKeys == Returns("keys") /\ Holds("keys", NoArg, newArray(keys(map)))
QueryUids == Returns("uids") /\ Holds("uids", NoArg, newArray(uids(map)))
QueryEntries == Returns("entries") /\ Holds("entries", NoArg, newArray(entries(map)))
Validate(input) ==
  Returns("validate") /\ Holds("validate", input, newArray(validate(input)))
GetExisting == Returns("getExisting") /\ Holds("getExisting", NoArg, getExisting(generated))
GetMap == Returns("getMap") /\ Holds("getMap", NoArg, getMap(map))

\* ------------------------------------------------------------------------
\* The caller and what it holds
\* ------------------------------------------------------------------------

\* The calls that return an array of the state of the program.
SnapshotOps == {"getExisting", "keys", "uids", "entries"}

\* What the caller sees in what it holds: its own entries when it is an
\* array of its own, and else the entries of the object it refers to.
heldValue(h, m, gen) ==
  CASE h.ref = "map" -> m
    [] h.ref = "generated" -> gen
    [] OTHER -> h.val

\* The item a caller pushes to the array a call returned.
pushItem(op) ==
  CASE op = "keys" -> <<"b">>
    [] op = "entries" -> << <<"b", IdBad>> >>
    [] OTHER -> <<IdBad>>

\* Array.prototype.push, pop and reverse.
mutated(how, arr, items) ==
  CASE how = "push" -> arr \o items
    [] how = "pop" -> SubSeq(arr, 1, Len(arr) - 1)
    [] how = "reverse" -> [i \in 1..Len(arr) |-> arr[Len(arr) + 1 - i]]

\* The array has been changed by the caller.
Mutated == [kind |-> "mutated", val |-> <<>>]

\* The caller changes, once, the array it holds: an array of its own, or
\* the ledger if that is what it was given.
MutateHeld(how) ==
  /\ pc = "idle"
  /\ held.op \in SnapshotOps
  /\ held.arg.kind = "none"
  /\ IF held.ref = "generated"
       THEN /\ generated' = mutated(how, generated, pushItem(held.op))
            /\ held' = [held EXCEPT !.arg = Mutated]
       ELSE /\ held' = [held EXCEPT !.arg = Mutated,
                                    !.val = mutated(how, @, pushItem(held.op))]
            /\ UNCHANGED generated
  /\ UNCHANGED <<map, pc, pending, last, log>>
  /\ UNCHANGED <<retried, issued, issuedSince, prior, returned, created, inserted,
               movedBy>>

\* The caller writes an entry through the Map it holds: Map.prototype.set on
\* the Map of the manager, or on a Map of its own if that is what it was
\* given.
HandleSet(key, uid) ==
  /\ pc = "idle"
  /\ held.op = "getMap"
  /\ IF held.ref = "map"
       THEN /\ map' = mapSet(map, key, uid)
            /\ UNCHANGED held
       ELSE /\ held' = [held EXCEPT !.val = mapSet(@, key, uid)]
            /\ UNCHANGED map
  /\ UNCHANGED <<generated, pc, pending, last, log>>
  /\ UNCHANGED <<retried, issued, issuedSince, prior, returned, created, inserted,
               movedBy>>

\* ------------------------------------------------------------------------
\* The operations of a generator on its own
\* ------------------------------------------------------------------------

\* uid(uids): generated = uids || []
InitGenerator ==
  /\ map = <<>>
  /\ generated \in InitialLedgers
  /\ pc = "idle"
  /\ pending = NoKey
  /\ last = [op |-> "uid", ret |-> RetNone]
  /\ log = NoLog

Generate ==
  /\ pc = "idle"
  /\ Len(generated) < MaxLedger
  /\ pc' = "generate"
  /\ last' = [op |-> "generate", ret |-> RetNone]
  /\ UNCHANGED <<map, generated, pending, log>>

GenerateLoop(values) ==
  /\ pc = "generate"
  /\ \E r \in {generateStep(generated, values)} :
       IF r.done
           THEN /\ generated' = r.generated
                /\ last' = [op |-> "generate", ret |-> RetUid(r.id)]
                /\ pc' = "idle"
                /\ UNCHANGED <<map, pending, log>>
           ELSE UNCHANGED prog

SetExisting(ids) ==
  /\ pc = "idle"
  /\ \E r \in {setExisting(generated, ids)} :
       /\ generated' = r.generated
       /\ last' = [op |-> "setExisting", ret |-> RetBool(r.ret)]
  /\ UNCHANGED <<map, pc, pending, log>>

\* gen = () => formatUid(getRandomValues()): one candidate of generate.
FormatUid(values) ==
  /\ pc = "idle"
  /\ last' = [op |-> "formatUid", ret |-> RetUid(formatUid(values))]
  /\ UNCHANGED <<map, generated, pc, pending, log>>

\* ------------------------------------------------------------------------
\* History of a step
\* ------------------------------------------------------------------------

\* The step enters the loop of generate.
EnterLoop ==
  /\ retried' = FALSE
  /\ UNCHANGED <<issued, issuedSince, prior, returned, created, inserted, held, movedBy>>

\* The step is an iteration of the loop of generate: a rejected candidate is
\* noted, a returned identifier is recorded.
RecordLoop ==
  IF pc' = "idle"
    THEN /\ issued' = issued \cup {last'.ret.id}
         /\ issuedSince' = issuedSince \cup {last'.ret.id}
         /\ returned' = IF returned.only
                          THEN [returned EXCEPT !.ids = Append(@, last'.ret.id)]
                          ELSE returned
         /\ UNCHANGED <<retried, prior, created, inserted, held, movedBy>>
    ELSE /\ retried' = TRUE
         /\ UNCHANGED <<issued, issuedSince, prior, returned, created, inserted, held, movedBy>>

\* The step is an iteration of the loop of generate: a rejected candidate is
\* noted, and nothing else.
RecordRetry ==
  /\ retried' = (retried \/ pc' # "idle")
  /\ UNCHANGED <<issued, issuedSince, prior, returned, created, inserted, held, movedBy>>

\* The step is a restore or a setExisting: when it returned true, the
\* identifiers returned so far no longer count as returned since; whatever
\* it returned, a call other than generate was made.
RecordReplace ==
  /\ issuedSince' = IF last'.ret = RetTrue THEN {} ELSE issuedSince
  /\ returned' = [fresh |-> FALSE, ids |-> <<>>, initial |-> returned.initial,
                  only |-> FALSE]
  /\ UNCHANGED <<retried, issued, prior, created, inserted, held, movedBy>>

\* The step is an iteration of the loop of generate inside generateUIDFor:
\* when the call returns, it is the call that returned last, for its key and
\* with its identifier; repeat tells whether the call before it was a
\* generateUIDFor for the same key with no other call in between.
RecordCall ==
  /\ prior' = IF pc' = "idle"
                THEN [key |-> pending, id |-> last'.ret.id,
                      repeat |-> prior.key = pending]
                ELSE prior
  /\ UNCHANGED <<retried, issued, issuedSince, returned, created, inserted, held, movedBy>>

\* The step is a call other than generateUIDFor.
ForgetCall ==
  /\ prior' = NoPrior
  /\ UNCHANGED <<retried, issued, issuedSince, returned, created, inserted, held, movedBy>>

\* The keys ks with k at the end, and those of ks that the table m holds.
moveToEnd(ks, k) == Append(SelectSeq(ks, LAMBDA x : x # k), k)
present(ks, m) == SelectSeq(ks, LAMBDA x : mapHas(m, x))

\* The positions of a batch where its keys occur first, and where they occur
\* last; the keys at given positions.
firstAt(batch) ==
  SelectSeq([i \in 1..Len(batch) |-> i],
            LAMBDA i : \A j \in 1..(i - 1) : batch[j][1] # batch[i][1])
lastAt(batch) ==
  SelectSeq([i \in 1..Len(batch) |-> i],
            LAMBDA i : \A j \in (i + 1)..Len(batch) : batch[j][1] # batch[i][1])
keysAt(batch, at) == [n \in 1..Len(at) |-> batch[at[n]][1]]

\* The step is an iteration of the loop of generate inside generateUIDFor:
\* when the call returns, it has removed the association of its key, if any,
\* and created and inserted a new one.
RecordGenerated ==
  /\ created' = IF pc' = "idle" THEN moveToEnd(created, pending) ELSE created
  /\ inserted' = IF pc' = "idle" THEN moveToEnd(inserted, pending) ELSE inserted
  /\ UNCHANGED <<retried, issued, issuedSince, prior, returned, held, movedBy>>

\* The step is a set for key: when it returned true, it has removed the
\* association of the key, if any, and created and inserted a new one.
RecordSet(key) ==
  /\ created' = IF last'.ret = RetTrue THEN moveToEnd(created, key) ELSE created
  /\ inserted' = IF last'.ret = RetTrue THEN moveToEnd(inserted, key) ELSE inserted
  /\ UNCHANGED <<retried, issued, issuedSince, prior, returned, held, movedBy>>

\* The step is a restore of batch: when it returned true, the table was
\* cleared and the pairs of the batch were set one after the other; the
\* association a key has now was created by the last pair that names it, and
\* the key was inserted by the first.
RecordRestore(batch) ==
  /\ created' = IF last'.ret = RetTrue THEN keysAt(batch, lastAt(batch)) ELSE created
  /\ inserted' = IF last'.ret = RetTrue THEN keysAt(batch, firstAt(batch)) ELSE inserted
  /\ UNCHANGED <<retried, issued, issuedSince, prior, returned, held, movedBy>>

\* The step is a deleteUID, a deleteUIDFor or a deleteAll.
RecordDelete ==
  /\ created' = present(created, map')
  /\ inserted' = present(inserted, map')
  /\ UNCHANGED <<retried, issued, issuedSince, prior, returned, held, movedBy>>

\* The step is an iteration of the loop of generate inside generateUIDFor:
\* when the call returns and its key was the first of three in the table,
\* that is noted.
RecordMovedGenerate ==
  /\ movedBy' = IF pc' = "idle" /\ Len(map) = 3 /\ map[1][1] = pending
                  THEN movedBy \cup {"generateUIDFor"}
                  ELSE movedBy
  /\ UNCHANGED <<retried, issued, issuedSince, prior, returned, created, inserted, held>>

\* The step is a set for key: when it returned true and the key was the
\* first of three in the table, that is noted.
RecordMovedSet(key) ==
  /\ movedBy' = IF last'.ret = RetTrue /\ Len(map) = 3 /\ map[1][1] = key
                  THEN movedBy \cup {"set"}
                  ELSE movedBy
  /\ UNCHANGED <<retried, issued, issuedSince, prior, returned, created, inserted, held>>

\* ------------------------------------------------------------------------
\* Specifications
\* ------------------------------------------------------------------------

\* The manager under every call of its mutating operations.
Init == InitProg /\ InitHist

Next ==
  \/ \E key \in Keys : GenerateUIDFor(key) /\ UNCHANGED hist
  \/ \E values \in RandomValues : GenerateUIDForLoop(values) /\ UNCHANGED hist
  \/ \E key \in Keys, uid \in CallerIds : Set(key, uid) /\ UNCHANGED hist
  \/ \E batch \in Batches : Restore(batch) /\ UNCHANGED hist
  \/ \E uid \in UidArgs : DeleteUID(uid) /\ UNCHANGED hist
  \/ \E key \in Keys : DeleteUIDFor(key) /\ UNCHANGED hist
  \/ DeleteAll /\ UNCHANGED hist

Spec == Init /\ [][Next]_vars

\* The manager with the history of the identifiers generateUIDFor returned.
NextIssued ==
  \/ \E key \in ValidKeys : GenerateUIDFor(key) /\ EnterLoop
  \/ \E values \in RandomValues : GenerateUIDForLoop(values) /\ RecordLoop
  \/ \E key \in ValidKeys, uid \in CallerIds : Set(key, uid) /\ UNCHANGED hist
  \/ \E batch \in ValidKeyBatches : Restore(batch) /\ RecordReplace
  \/ \E uid \in UidArgs : DeleteUID(uid) /\ UNCHANGED hist
  \/ \E key \in ValidKeys : DeleteUIDFor(key) /\ UNCHANGED hist
  \/ DeleteAll /\ UNCHANGED hist

SpecIssued == Init /\ [][NextIssued]_vars

\* A generator on its own, with the history of the identifiers it returned.
InitGen == InitGenerator /\ InitHist

NextGen ==
  \/ Generate /\ EnterLoop
  \/ \E values \in RandomValues : GenerateLoop(values) /\ RecordLoop
  \/ \E ids \in IdLists : SetExisting(ids) /\ RecordReplace

SpecGen == InitGen /\ [][NextGen]_vars

\* The manager with the history of the generateUIDFor call that returned last.
NextRepeat ==
  \/ \E key \in ValidKeys : GenerateUIDFor(key) /\ UNCHANGED hist
  \/ \E values \in RandomValues : GenerateUIDForLoop(values) /\ RecordCall
  \/ \E key \in ValidKeys, uid \in CallerIds : Set(key, uid) /\ ForgetCall
  \/ \E batch \in ValidKeyBatches : Restore(batch) /\ ForgetCall
  \/ \E uid \in UidArgs : DeleteUID(uid) /\ ForgetCall
  \/ \E key \in ValidKeys : DeleteUIDFor(key) /\ ForgetCall
  \/ DeleteAll /\ ForgetCall

SpecRepeat == Init /\ [][NextRepeat]_vars

\* The candidates of generate, for a wider range of random values.
NextFormat == \E values \in FormatValues : FormatUid(values) /\ UNCHANGED hist

SpecFormat == InitGen /\ [][NextFormat]_vars

\* The generator of a manager and a generator on its own, with a random
\* source that is fair: a value it can produce, and that would end the loop
\* of generate, is not withheld for ever.
NextLive ==
  \/ Generate /\ EnterLoop
  \/ \E values \in LiveValues : GenerateLoop(values) /\ RecordRetry
  \/ GenerateUIDFor("a") /\ EnterLoop
  \/ \E values \in LiveValues : GenerateUIDForLoop(values) /\ RecordRetry
  \/ \E ids \in InitialLedgers : SetExisting(ids) /\ UNCHANGED hist

FairRandom ==
  \A values \in LiveValues :
    /\ WF_vars(GenerateLoop(values) /\ RecordRetry)
    /\ WF_vars(GenerateUIDForLoop(values) /\ RecordRetry)

SpecLive == InitGen /\ [][NextLive]_vars /\ FairRandom

\* The manager with the history of the order of its keys.
NextOrder ==
  \/ \E key \in ValidKeys : GenerateUIDFor(key) /\ UNCHANGED hist
  \/ \E values \in RandomValues : GenerateUIDForLoop(values) /\ RecordGenerated
  \/ \E key \in ValidKeys, uid \in CallerIds : Set(key, uid) /\ RecordSet(key)
  \/ \E batch \in OrderBatches : Restore(batch) /\ RecordRestore(batch)
  \/ \E uid \in UidArgs : DeleteUID(uid) /\ RecordDelete
  \/ \E key \in ValidKeys : DeleteUIDFor(key) /\ RecordDelete
  \/ DeleteAll /\ RecordDelete

SpecOrder == Init /\ [][NextOrder]_vars

\* The manager with its queries, and a caller that keeps and changes the
\* arrays they return; getExisting is the call set makes on the generator.
NextQuery ==
  \/ GenerateUIDFor("a") /\ UNCHANGED hist
  \/ \E values \in RandomValues : GenerateUIDForLoop(values) /\ UNCHANGED hist
  \/ \E key \in ValidKeys : Set(key, IdA) /\ UNCHANGED hist
  \/ \E key \in ValidKeys : DeleteUIDFor(key) /\ UNCHANGED hist
  \/ \E key \in Keys : GetUIDFor(key) /\ UNCHANGED hist
  \/ \E uid \in UidArgs : GetKeyFor(uid) /\ UNCHANGED hist
  \/ \E key \in Keys : HasUIDFor(key) /\ UNCHANGED hist
  \/ \E uid \in UidArgs : HasKeyFor(uid) /\ UNCHANGED hist
  \/ QueryKeys
  \/ QueryUids
  \/ QueryEntries
  \/ \E input \in ScalarInputs : Validate(input)
  \/ GetExisting
  \/ \E how \in Mutations : MutateHeld(how)

SpecQuery == Init /\ [][NextQuery]_vars

\* validate on its own, for every input.
NextValidate == \E input \in ScalarInputs \cup ArrayInputs : Validate(input)

SpecValidate == Init /\ [][NextValidate]_vars

\* The manager and a caller that holds its Map and writes through it.
NextHandle ==
  \/ \E key \in ValidKeys : GenerateUIDFor(key) /\ UNCHANGED hist
  \/ \E values \in RandomValues : GenerateUIDForLoop(values) /\ UNCHANGED hist
  \/ \E key \in ValidKeys, uid \in CallerIds : Set(key, uid) /\ UNCHANGED hist
  \/ \E key \in Keys : DeleteUIDFor(key) /\ UNCHANGED hist
  \/ DeleteAll /\ UNCHANGED hist
  \/ GetMap
  \/ \E key \in HandleKeys, uid \in HandleIds : HandleSet(key, uid)

SpecHandle == Init /\ [][NextHandle]_vars

\* The manager under calls whose identifiers may be null or undefined.
NextAny ==
  \/ \E key \in Keys : GenerateUIDFor(key) /\ UNCHANGED hist
  \/ \E values \in RandomValues : GenerateUIDForLoop(values) /\ UNCHANGED hist
  \/ \E key \in Keys, uid \in AnyIds : Set(key, uid) /\ UNCHANGED hist
  \/ \E batch \in AnyBatches : Restore(batch) /\ UNCHANGED hist
  \/ \E uid \in UidArgs : DeleteUID(uid) /\ UNCHANGED hist
  \/ \E key \in Keys : DeleteUIDFor(key) /\ UNCHANGED hist
  \/ DeleteAll /\ UNCHANGED hist

SpecAny == Init /\ [][NextAny]_vars

\* The manager with three keys, and the history of the calls that replaced
\* the association of the first of them.
NextMove ==
  \/ \E key \in MoreKeys : GenerateUIDFor(key) /\ UNCHANGED hist
  \/ \E values \in RandomValues : GenerateUIDForLoop(values) /\ RecordMovedGenerate
  \/ \E key \in MoreKeys, uid \in MoreIds : Set(key, uid) /\ RecordMovedSet(key)
  \/ \E key \in MoreKeys : DeleteUIDFor(key) /\ UNCHANGED hist

SpecMove == Init /\ [][NextMove]_vars

\* A generator constructed with a ledger, and the history of that ledger.
InitResume ==
  \E ledger \in ResumeLedgers :
    /\ map = <<>>
    /\ generated = UID(ledger)
    /\ pc = "idle"
    /\ pending = NoKey
    /\ last = [op |-> "uid", ret |-> RetNone]
    /\ log = NoLog
    /\ retried = FALSE
    /\ issued = {}
    /\ issuedSince = {}
    /\ prior = NoPrior
    /\ returned = [fresh |-> ledger = <<>>, ids |-> <<>>, initial |-> ledger, only |-> TRUE]
    /\ created = <<>>
    /\ inserted = <<>>
    /\ held = NoHeld
    /\ movedBy = {}

SpecResume == InitResume /\ [][NextGen]_vars

TypeOK ==
  /\ pc \in {"idle", "generate", "generateUIDFor"}
  /\ pending \in ValidKeys \cup {NoKey}
  /\ retried \in BOOLEAN
  /\ \A i \in 1..Len(map) : map[i][1] \in Keys
  /\ Len(generated) <= MaxLedger

\* ------------------------------------------------------------------------
\* Properties
\* ------------------------------------------------------------------------

\* The identifiers of a batch after v.toLowerCase(), in batch order.
LoweredIds(batch) == [i \in 1..Len(batch) |-> toLowerCase(batch[i][2])]

\* The batch with its identifiers lowercased.
LoweredBatch(batch) ==
  [i \in 1..Len(batch) |-> <<batch[i][1], toLowerCase(batch[i][2])>>]

\* The pattern of a version-4 identifier, whatever the letter case.
IsVersion4(id) == reTest(id)

\* C1: in every state the manager reaches through generateUIDFor, set,
\* restore, deleteUID, deleteUIDFor and deleteAll, no two distinct keys of the
\* table map to the same identifier.
C1_NoSharedIdentifier ==
  \A i, j \in 1..Len(map) : i # j => map[i][2] # map[j][2]

\* C2: in every state, for every valid key k and every string v whose
\* lowercase form does not match the version-4 pattern, set([k, v]) returns
\* false and leaves the table and the ledger as they are.
C2_SetRejectsInvalidIdentifier ==
  pc = "idle" =>
    \A k \in ValidKeys, v \in CallerIds :
      ~IsVersion4(toLowerCase(v)) =>
        LET r == set(map, generated, k, v)
        IN  r.ret = RetFalse /\ r.map = map /\ r.generated = generated

\* C3: in every state, restore of a batch with at least one identifier that
\* does not match the version-4 pattern returns false and leaves the table
\* and the ledger as they are.
C3_RestoreRejectsInvalidIdentifier ==
  pc = "idle" =>
    \A batch \in Batches :
      (\E i \in 1..Len(batch) : ~IsVersion4(toLowerCase(batch[i][2]))) =>
        LET r == restore(map, generated, batch)
        IN  r.ret = RetFalse /\ r.map = map /\ r.generated = generated

\* C4: in every state, restore of a batch in which two pairs carry the same
\* identifier after lowercasing (two spellings of one identifier included)
\* returns false and leaves the table and the ledger as they are.
C4_RestoreRejectsDuplicates ==
  pc = "idle" =>
    \A batch \in Batches :
      (\E i, j \in 1..Len(batch) :
         i # j /\ toLowerCase(batch[i][2]) = toLowerCase(batch[j][2])) =>
        LET r == restore(map, generated, batch)
        IN  r.ret = RetFalse /\ r.map = map /\ r.generated = generated

\* C4 witness: restore has just rejected a batch for a repeated identifier
\* while the table and the ledger were not empty.
C4_Witness ==
  /\ last = [op |-> "restore", ret |-> RetFalse]
  /\ log = onError("restore", dupMsg)
  /\ map # <<>>
  /\ generated # <<>>

\* C5: in every state, restore of a batch in which some key, at any
\* position, is undefined, null or NaN returns false and leaves the table and
\* the ledger as they are.
C5_RestoreRejectsBadKeys ==
  pc = "idle" =>
    \A batch \in Batches :
      (\E i \in 1..Len(batch) : batch[i][1] \in InvalidKeys) =>
        LET r == restore(map, generated, batch)
        IN  r.ret = RetFalse /\ r.map = map /\ r.generated = generated

\* C5 witness: restore has just rejected a batch for a bad key while the
\* table and the ledger were not empty.
C5_Witness ==
  /\ last = [op |-> "restore", ret |-> RetFalse]
  /\ log = onError("restore", keyMsg)
  /\ map # <<>>
  /\ generated # <<>>

\* C6: in every state, whenever restore of a batch returns true the ledger
\* afterwards is the sequence of the lowercased identifiers of the batch, in
\* batch order.
C6_RestoreReplacesLedger ==
  pc = "idle" =>
    \A batch \in Batches :
      LET r == restore(map, generated, batch)
      IN  r.ret = RetTrue => r.generated = LoweredIds(batch)

\* C7: in every state, whenever restore returns true for a batch whose keys
\* are pairwise distinct, entries() afterwards is the batch with its
\* identifiers lowercased, in batch order; so nothing of the table before the
\* call is left.
C7_RestoreReplacesTable ==
  pc = "idle" =>
    \A batch \in Batches :
      (\A i, j \in 1..Len(batch) : i # j => batch[i][1] # batch[j][1]) =>
        LET r == restore(map, generated, batch)
        IN  r.ret = RetTrue => entries(r.map) = LoweredBatch(batch)

\* C7 witness: restore has just returned true and left a table of two keys,
\* one of them with an identifier passed in uppercase.
C7_Witness ==
  /\ last = [op |-> "restore", ret |-> RetTrue]
  /\ Len(map) = 2
  /\ includes(uids(map), IdFLow)

\* C8: for every state of the manager, restore(entries()) on a fresh manager
\* returns true and gives a manager with the same keys(), uids() and
\* entries().
C8_RoundTrip ==
  LET r == restore(<<>>, <<>>, entries(map))
  IN  /\ r.ret = RetTrue
      /\ keys(r.map) = keys(map)
      /\ uids(r.map) = uids(map)
      /\ entries(r.map) = entries(map)

\* C9: an identifier generate returns was not returned by an earlier generate
\* call of the same generator since the ledger was last replaced by
\* setExisting, whatever the random source produces.
C9_GenerateDistinct ==
  [][(pc = "generate" /\ pc' = "idle") => last'.ret.id \notin issuedSince]_vars

\* C9 witness: generate has returned a second identifier after the random
\* source repeated a value that was already issued.
C9_Witness ==
  /\ last.op = "generate"
  /\ last.ret.tag = "uid"
  /\ retried
  /\ Cardinality(issuedSince) >= 2

\* C10 as stated: generateUIDFor never returns an identifier that an earlier
\* generateUIDFor call on the same manager returned, whatever calls were made
\* in between.
C10_NeverReissued ==
  [][(pc = "generateUIDFor" /\ pc' = "idle") => last'.ret.id \notin issued]_vars

\* C10 as amended: generateUIDFor never returns an identifier that an
\* earlier generateUIDFor call returned, provided no restore returned true
\* between the two calls.
C10_NeverReissuedSinceRestore ==
  [][(pc = "generateUIDFor" /\ pc' = "idle") =>
       last'.ret.id \notin issuedSince]_vars

\* C10 witness: generateUIDFor has returned a second identifier, with no
\* restore since the first, after the random source repeated the first.
C10_Witness ==
  /\ last.op = "generateUIDFor"
  /\ last.ret.tag = "uid"
  /\ retried
  /\ Cardinality(issuedSince) >= 2

\* C11: for every four 32-bit values, formatUid gives a string of 36 characters,
\* hyphens at the positions 9, 14, 19 and 24 and lowercase hexadecimal digits
\* elsewhere (groups of 8, 4, 4, 4 and 12), the third group starting with 4 and
\* the fourth with 8, 9, a or b; the pattern of validate matches it.
C11_FormatUidIsVersion4 ==
  last.op = "formatUid" =>
    LET id == last.ret.id
    IN  /\ Len(id) = 36
        /\ \A i \in 1..36 :
             IF i \in {9, 14, 19, 24} THEN id[i] = "-"
                                      ELSE id[i] \in Digits \cup LowerHex
        /\ id[15] = "4"
        /\ id[20] \in {"8", "9", "a", "b"}
        /\ id # <<>> /\ reMatches(id)

\* C11 witness: formatUid has formatted four values with all bits set, the
\* version and variant bits among them.
C11_Witness == last = [op |-> "formatUid", ret |-> RetUid(IdFLow)]

\* C12: when generateUIDFor(k) returns and the call before it was a
\* generateUIDFor(k) for the same key with no other call in between, the two
\* identifiers differ, getUIDFor(k) is the second, the first is the value of
\* no key, and the table holds exactly one entry for k.
C12_RegenerateReplaces ==
  [][(pc = "generateUIDFor" /\ pc' = "idle" /\ prior.key = pending) =>
       /\ last'.ret.id # prior.id
       /\ getUIDFor(map', pending) = RetUid(last'.ret.id)
       /\ ~includes(uids(map'), prior.id)
       /\ Cardinality({i \in 1..Len(map') : map'[i][1] = pending}) = 1]_vars

C14_SetRejectsUsedIdentifier ==
  pc = "idle" =>
    \A k \in Keys, v \in CallerIds :
      (\/ includes(uids(map), LowerChars(v))
       \/ includes(generated, LowerChars(v))) =>
        LET r == set(map, generated, k, v)
        IN  r.ret = RetFalse /\ r.map = map /\ r.generated = generated

\* C14 witness: set has just rejected an identifier as already existing while
\* the table was empty: the identifier was in the ledger only.
C14_Witness ==
  /\ last = [op |-> "set", ret |-> RetFalse]
  /\ log = onError("set", existsMsg)
  /\ map = <<>>
  /\ generated # <<>>

\* C15: in every state, for every valid key k and every string v whose
\* lowercase form matches the version-4 pattern and is neither a value of the
\* table nor in the ledger, set([k, v]) returns true; afterwards k maps to the
\* lowercase form of v, the table holds exactly one entry for k, and every
\* other key has the association it had (or none, if it had none).
C15_SetStores ==
  pc = "idle" =>
    \A k \in ValidKeys, v \in CallerIds :
      (/\ IsVersion4(LowerChars(v))
       /\ ~includes(uids(map), LowerChars(v))
       /\ ~includes(generated, LowerChars(v))) =>
        LET r == set(map, generated, k, v)
        IN  /\ r.ret = RetTrue
            /\ getUIDFor(r.map, k) = RetUid(LowerChars(v))
            /\ Cardinality({i \in 1..Len(r.map) : r.map[i][1] = k}) = 1
            /\ \A other \in Keys \ {k} :
                 /\ hasUIDFor(r.map, other) = hasUIDFor(map, other)
                 /\ getUIDFor(r.map, other) = getUIDFor(map, other)
            /\ r.generated = generated

\* C15 witness: set has just returned true for an identifier passed in
\* uppercase, in a table that holds another key as well.
C15_Witness ==
  /\ last = [op |-> "set", ret |-> RetTrue]
  /\ Len(map) = 2
  /\ map[2][2] = IdFLow
  /\ IsVersion4(map[1][2])

\* C16: in every state the manager reaches through generateUIDFor, set,
\* restore and the delete operations, no key of the table is undefined, null
\* or NaN.
C16_NoBadKeyStored ==
  \A i \in 1..Len(map) : map[i][1] \notin InvalidKeys

\* C16 witness: set has just rejected a bad key, in a table that is not empty.
C16_Witness ==
  /\ last = [op |-> "set", ret |-> RetFalse]
  /\ log = onError("set", keyMsg)
  /\ map # <<>>

\* C17: in every state the manager reaches through generateUIDFor, set,
\* restore and the delete operations, every identifier of the table is its own
\* lowercase form.
C17_StoredLowercase ==
  \A i \in 1..Len(map) : map[i][2] = LowerChars(map[i][2])

\* C17 witness: after a set or a restore that returned true the table holds
\* the lowercase forms of both identifiers of the caller; the ledger is empty,
\* so IdFLow is there for the uppercase IdF that the caller passed.
C17_Witness ==
  /\ last.op \in {"set", "restore"}
  /\ last.ret = RetTrue
  /\ includes(uids(map), IdFLow)
  /\ includes(uids(map), IdALow)
  /\ generated = <<>>

\* C18: in every state of a generator, setExisting(ids) returns true and makes
\* the ledger the candidates in their order when every candidate matches the
\* version-4 pattern; when some candidate does not, it returns false and the
\* ledger is what it was.
C18_SetExistingAllOrNothing ==
  pc = "idle" =>
    \A ids \in IdLists :
      LET r == setExisting(generated, ids)
      IN  IF \A i \in 1..Len(ids) : IsVersion4(ids[i])
            THEN r.ret /\ r.generated = ids
            ELSE ~r.ret /\ r.generated = generated

\* C18 witness: setExisting has just returned false and the ledger still holds
\* two identifiers that generate returned.
C18_Witness ==
  /\ last = [op |-> "setExisting", ret |-> RetFalse]
  /\ Len(generated) >= 2
  /\ \A i \in 1..Len(generated) : generated[i] \in issuedSince

\* C19: generate never returns an identifier that equals an entry of the
\* ledger when letter case is ignored (the ledger holding what setExisting put
\* there).
C19_GenerateDistinctIgnoringCase ==
  [][(pc = "generate" /\ pc' = "idle") =>
       \A i \in 1..Len(generated) :
         LowerChars(generated[i]) # LowerChars(last'.ret.id)]_vars

\* The table without its entry at position i.
WithoutEntry(m, i) == SubSeq(m, 1, i - 1) \o SubSeq(m, i + 1, Len(m))

\* C20: in every state, for every string uid: if some entry of the table has
\* exactly uid as its identifier, deleteUID(uid) returns true and the table
\* afterwards is the table without the first such entry, all other entries
\* as they were and in their order; otherwise deleteUID(uid) returns false and
\* the table is unchanged.
C20_DeleteUIDRemovesFirst ==
  pc = "idle" =>
    \A uid \in UidArgs :
      LET r == deleteUID(map, uid)
          hits == {i \in 1..Len(map) : map[i][2] = uid}
      IN  IF hits # {}
            THEN /\ r.ret = RetTrue
                 /\ r.map = WithoutEntry(map, CHOOSE i \in hits : \A j \in hits : i <= j)
            ELSE /\ r.ret = RetFalse
                 /\ r.map = map

\* C20 witness: deleteUID has just returned true and left one entry in the
\* table.
C20_Witness ==
  /\ last = [op |-> "deleteUID", ret |-> RetTrue]
  /\ Len(map) = 1

\* C21: in every state, for every key: if the key has an association,
\* deleteUIDFor(key) returns true and the table afterwards is the table without
\* that entry, all other entries as they were and in their order, and a second
\* deleteUIDFor(key) on that table returns false; otherwise deleteUIDFor(key)
\* returns false and the table is unchanged.
C21_DeleteUIDForRemoves ==
  pc = "idle" =>
    \A key \in Keys :
      LET r == deleteUIDFor(map, key)
          hits == {i \in 1..Len(map) : map[i][1] = key}
      IN  IF hits # {}
            THEN /\ r.ret = RetTrue
                 /\ r.map = WithoutEntry(map, CHOOSE i \in hits : TRUE)
                 /\ deleteUIDFor(r.map, key).ret = RetFalse
            ELSE /\ r.ret = RetFalse
                 /\ r.map = map

\* C21 witness: deleteUIDFor has just returned true and left one entry in the
\* table.
C21_Witness ==
  /\ last = [op |-> "deleteUIDFor", ret |-> RetTrue]
  /\ Len(map) = 1

\* C22: in every state, getKeyFor(getUIDFor(k)) is k for every key k of the
\* table; for every identifier u, hasKeyFor(u) is true exactly when
\* getKeyFor(u) returns a key; for every key k, hasUIDFor(k) is true exactly
\* when getUIDFor(k) returns an identifier.
C22_Bidirectional ==
  /\ \A i \in 1..Len(map) :
       getKeyFor(map, getUIDFor(map, map[i][1]).id) = map[i][1]
  /\ \A u \in UidArgs : hasKeyFor(map, u) <=> getKeyFor(map, u) # Undefined
  /\ \A k \in Keys : hasUIDFor(map, k) <=> getUIDFor(map, k).tag = "uid"

\* C26: every call that reports an expected failure has written a
\* diagnostic during the call: after restore, set, deleteUID or deleteUIDFor
\* returned false, and after generateUIDFor returned null, the log of the
\* call is not empty.
C26_FailureLogged ==
  (\/ /\ last.op \in {"restore", "set", "deleteUID", "deleteUIDFor"}
      /\ last.ret = RetFalse
   \/ /\ last.op = "generateUIDFor"
      /\ last.ret = RetNull)
  => log # NoLog

\* C28: a generate call appends the identifier it returns to the end of the
\* ledger and changes nothing else in it (an iteration that rejects its
\* candidate leaves the ledger as it is); on a generator created empty on
\* which only generate was called, getExisting() is the sequence of the
\* identifiers returned so far, in call order.
C28_GenerateAppends ==
  /\ [](returned.fresh => getExisting(generated).val = returned.ids)
  /\ [][pc = "generate" =>
          IF pc' = "idle" THEN generated' = Append(generated, last'.ret.id)
                          ELSE generated' = generated]_vars

\* C28 witness: two generate calls on a generator created empty have
\* returned, and the ledger ends with the identifier of the second.
C28_Witness ==
  /\ returned.fresh
  /\ Len(returned.ids) = 2
  /\ last = [op |-> "generate", ret |-> RetUid(generated[Len(generated)])]
  /\ generated[1] # generated[2]

\* C27: with a fair random source every call of generate, and every
\* generateUIDFor that entered the loop of generate, eventually returns an
\* identifier, whatever the ledger holds when it is called.
C27_GenerateReturns ==
  (pc \in {"generate", "generateUIDFor"}) ~> (pc = "idle" /\ last.ret.tag = "uid")

\* C27 witness: generate has returned on a ledger it filled up, after the
\* random source had it reject a candidate.
C27_Witness ==
  /\ pc = "idle"
  /\ last.op = "generate"
  /\ last.ret.tag = "uid"
  /\ retried
  /\ Len(generated) = MaxLedger

\* keys(), uids() and entries() have the same length, entries() pairs them
\* position by position, and keys() has no repeated key.
PairedSnapshots ==
  /\ Len(keys(map)) = Len(entries(map))
  /\ Len(uids(map)) = Len(entries(map))
  /\ \A i \in 1..Len(entries(map)) : entries(map)[i] = <<keys(map)[i], uids(map)[i]>>
  /\ \A i, j \in 1..Len(keys(map)) : keys(map)[i] = keys(map)[j] => i = j

\* C24 as stated: keys(), uids() and entries() have the same length,
\* entries()[i] is [keys()[i], uids()[i]], keys() has no repeated key, and
\* the order is the order in which the present associations were created.
C24_CreationOrder == PairedSnapshots /\ keys(map) = created

\* C24 as amended: the same, the order being the order in which the keys
\* were inserted since they were last absent from the table; a key that
\* restore finds again in its batch keeps the position of its first pair and
\* gets the identifier of its last.
C24_InsertionOrder == PairedSnapshots /\ keys(map) = inserted

\* C24 witness: restore has accepted a batch that names a key twice with
\* another key in between, so that the two orders differ.
C24_Witness ==
  /\ last = [op |-> "restore", ret |-> RetTrue]
  /\ Len(map) = 2
  /\ created # inserted

\* C23: a step that is a call of getUIDFor, getKeyFor, hasUIDFor, hasKeyFor,
\* keys, uids, entries or validate, with any argument and in any state,
\* leaves the table and the ledger of the generator as they were.
C23_QueriesChangeNothing ==
  [][(\/ \E key \in Keys : GetUIDFor(key) \/ HasUIDFor(key)
      \/ \E uid \in UidArgs : GetKeyFor(uid) \/ HasKeyFor(uid)
      \/ QueryKeys
      \/ QueryUids
      \/ QueryEntries
      \/ \E input \in ScalarInputs : Validate(input))
     => map' = map /\ generated' = generated]_vars

\* C23 witness: a query has answered on a table of two associations and a
\* ledger that is not empty.
C23_Witness ==
  /\ last = [op |-> "getKeyFor", ret |-> RetKey("b")]
  /\ Len(map) = 2
  /\ generated # <<>>
  /\ held.op = "validate"

\* A string matches the pattern of a version-4 identifier when letter case is
\* ignored.
MatchesIgnoringCase(id) ==
  /\ Len(id) = 36
  /\ \A i \in 1..36 :
       CASE i \in {9, 14, 19, 24} -> id[i] = "-"
         [] i = 15 -> id[i] = "4"
         [] i = 20 -> LowerChar(id[i]) \in {"8", "9", "a", "b"}
         [] OTHER -> LowerChar(id[i]) \in Digits \cup LowerHex

\* The candidates of an input of validate: the entries of an array, a string
\* that is not empty as the only one, none for null, undefined and "".
candidates(input) ==
  CASE input.kind = "array" -> input.val
    [] input.kind = "string" /\ input.val # <<>> -> <<input.val>>
    [] OTHER -> <<>>

\* C29: validate(input) returns the candidates that match the pattern of a
\* version-4 identifier whatever their letter case, in the order of the input
\* and spelled as in the input; a string is taken as an array of one, and
\* null, undefined and "" give the empty array.
C29_ValidateFilters ==
  held.op = "validate" =>
    held.val = SelectSeq(candidates(held.arg), MatchesIgnoringCase)

\* C29 witness: validate has returned, for an array of an identifier in upper
\* case, a string that does not match and an identifier in lower case, the
\* first and the third as they were given.
C29_Witness ==
  /\ held.op = "validate"
  /\ held.arg.kind = "array"
  /\ held.arg.val = <<IdA, IdBad, IdFLow>>
  /\ held.val = <<IdA, IdFLow>>

\* The caller holds in h1 what it holds in h2: the step left it alone.
sameHeld(h1, h2) ==
  /\ h1.op = h2.op
  /\ h1.arg.kind = h2.arg.kind
  /\ h1.ref = h2.ref
  /\ h1.val = h2.val

\* C30: the arrays that getExisting, keys, uids and entries return are the
\* caller's own: a step in which the caller pushes to, pops from or reverses
\* the array it holds leaves the table and the ledger as they were, and a
\* step that leaves the caller alone, whatever it does to the manager, leaves
\* what the caller sees in its array as it was.
C30_SnapshotsAreFresh ==
  [][held.op \in SnapshotOps =>
       /\ (held.arg.kind = "none" /\ held'.arg.kind = "mutated")
            => map' = map /\ generated' = generated
       /\ sameHeld(held', held)
            => heldValue(held', map', generated') = heldValue(held, map, generated)]_vars

\* C30 witness: the caller holds an array of entries that it has changed, the
\* manager has stored an association since, and the array and the table
\* differ.
C30_Witness ==
  /\ held.op = "entries"
  /\ held.arg.kind = "mutated"
  /\ held.val # <<>>
  /\ last = [op |-> "set", ret |-> RetTrue]
  /\ heldValue(held, map, generated) # entries(map)

\* C25: getMap returns the Map of the manager, the same at every call: what
\* a caller sees through the Map it was given is the table as it is now,
\* whatever the manager did since, another call of getMap would return what
\* the caller holds, and an entry written through it, with any key and any
\* string, is what the queries answer from.
C25_GetMapIsLive ==
  /\ [](held.op = "getMap" =>
          /\ getMap(map) = [ref |-> held.ref, val |-> held.val]
          /\ heldValue(held, map, generated) = entries(map))
  /\ [][\A key \in HandleKeys, uid \in HandleIds :
          HandleSet(key, uid) =>
            /\ getUIDFor(map', key) = RetUid(uid)
            /\ hasUIDFor(map', key)
            /\ hasKeyFor(map', uid)
            /\ includes(entries(map'), <<key, uid>>)
            /\ includes(keys(map'), key)]_vars

\* C25 witness: the caller holds the Map, and the table has the key NaN with
\* a string that is no identifier, and two keys with the same string in
\* upper case, none of which the manager would have stored.
C25_Witness ==
  /\ held.op = "getMap"
  /\ getUIDFor(map, NaN) = RetUid(IdBad)
  /\ getUIDFor(map, "a") = RetUid(IdF)
  /\ Len(map) = 3
  /\ \E i \in 1..Len(map) : map[i] = <<"b", IdFLow>>

UpperIds == {uid \in CallerIds : LowerChars(uid) # uid}

\* C32: lookups by identifier compare exactly: in every state, when set with
\* key k and an identifier U that has letters in upper case returns true,
\* then on the table it leaves getKeyFor(U) finds no key, hasKeyFor(U) is
\* false and deleteUID(U) returns false and changes nothing, while
\* getKeyFor, hasKeyFor and deleteUID with U in lower case find k, and
\* deleteUID removes its entry.
C32_LookupsAreExact ==
  pc = "idle" =>
    \A k \in ValidKeys, U \in UpperIds :
      \A r \in {set(map, generated, k, U)} :
        r.ret = RetTrue =>
          /\ getKeyFor(r.map, U) = Undefined
          /\ ~hasKeyFor(r.map, U)
          /\ deleteUID(r.map, U) = [map |-> r.map, ret |-> RetFalse]
          /\ getKeyFor(r.map, LowerChars(U)) = k
          /\ hasKeyFor(r.map, LowerChars(U))
          /\ deleteUID(r.map, LowerChars(U)) =
               [map |-> mapDelete(r.map, k), ret |-> RetTrue]

\* C32 witness: set has just stored, as the only entry of the table and with
\* nothing in the ledger, an identifier in lower case that no caller passes
\* in that spelling: it was passed in upper case.
C32_Witness ==
  /\ last = [op |-> "set", ret |-> RetTrue]
  /\ generated = <<>>
  /\ Len(map) = 1
  /\ map[1][2] = IdFLow
  /\ IdFLow \notin CallerIds

\* C33: when generateUIDFor(k) returns, or set([k, v]) returns true, for a
\* key k that was in the table, the entries of the table are those of the
\* other keys as they were, in the order they had, followed by the new entry
\* of k: k is last in keys(), uids() and entries().
C33_ReplacedKeyMovesLast ==
  [][/\ (pc = "generateUIDFor" /\ pc' = "idle" /\ hasUIDFor(map, pending))
          => /\ entries(map') =
                  Append(SelectSeq(entries(map), LAMBDA e : e[1] # pending),
                         <<pending, last'.ret.id>>)
             /\ keys(map') = moveToEnd(keys(map), pending)
     /\ \A key \in MoreKeys, uid \in MoreIds :
          (Set(key, uid) /\ last'.ret = RetTrue /\ hasUIDFor(map, key))
            => /\ entries(map') =
                    Append(SelectSeq(entries(map), LAMBDA e : e[1] # key),
                           <<key, LowerChars(uid)>>)
               /\ keys(map') = moveToEnd(keys(map), key)]_vars

\* C33 witness: a generateUIDFor and a successful set have each replaced the
\* association of the key that was the first of three.
C33_Witness ==
  /\ movedBy = {"generateUIDFor", "set"}
  /\ Len(map) = 3

\* C34: when generateUIDFor(k) with a valid key returns, the identifier it
\* returns was not in the ledger before, the ledger is the ledger before with
\* that identifier appended, k maps to it, and every other key maps to what
\* it mapped to before, or to nothing as before.
C34_GenerateUIDForEffect ==
  [][(pc = "generateUIDFor" /\ pc' = "idle") =>
       /\ ~includes(generated, last'.ret.id)
       /\ generated' = Append(generated, last'.ret.id)
       /\ getUIDFor(map', pending) = last'.ret
       /\ \A k \in Keys \ {pending} : getUIDFor(map', k) = getUIDFor(map, k)]_vars

\* C34 witness: generateUIDFor has returned for the first key of a table
\* that keeps an association made by set, with a ledger of two identifiers.
C34_Witness ==
  /\ last.op = "generateUIDFor"
  /\ last.ret.tag = "uid"
  /\ Len(generated) = 2
  /\ Len(map) = 2
  /\ map[1][2] = IdALow
  /\ map[2][2] = last.ret.id

\* The step is a call of deleteUID, deleteUIDFor or deleteAll.
DeleteStep ==
  \/ \E uid \in UidArgs : DeleteUID(uid)
  \/ \E key \in Keys : DeleteUIDFor(key)
  \/ DeleteAll

\* In the present state set returns false for the identifier, whatever the
\* key, and generate would reject it as a candidate.
StillRejected(id) ==
  /\ includes(generated, id)
  /\ generateRejects(generated, id)
  /\ pc = "idle" => \A k \in ValidKeys : set(map, generated, k, id).ret = RetFalse

\* C35 as stated: deleteUID, deleteUIDFor and deleteAll leave the ledger as
\* it is, and an identifier that generateUIDFor has returned is in the
\* ledger ever after, its association deleted or not: set with it returns
\* false and generate cannot return it.
C35_IssuedStaysRejected ==
  /\ [][DeleteStep => generated' = generated]_vars
  /\ [](\A id \in issued : StillRejected(id))

\* C35 as amended: the same, for the identifiers generateUIDFor has returned
\* since restore last replaced the ledger.
C35_IssuedStaysRejectedSinceRestore ==
  /\ [][DeleteStep => generated' = generated]_vars
  /\ [](\A id \in issuedSince : StillRejected(id))

\* C35 witness: a delete has just removed an association, and an identifier
\* that generateUIDFor returned since the last restore has none.
C35_Witness ==
  /\ last.op \in {"deleteUID", "deleteUIDFor"}
  /\ last.ret = RetTrue
  /\ \E id \in issuedSince : ~hasKeyFor(map, id)

\* C36: in every state, when set([k, v]) returns true it leaves the ledger
\* as it was, and once the association of k is deleted, set with the same v
\* returns true again for every valid key.
C36_SetLeavesLedger ==
  pc = "idle" =>
    \A k \in ValidKeys, v \in CallerIds :
      \A r \in {set(map, generated, k, v)} :
        r.ret = RetTrue =>
          /\ r.generated = generated
          /\ ~includes(r.generated, LowerChars(v))
          /\ \A k2 \in ValidKeys :
               set(deleteUIDFor(r.map, k).map, r.generated, k2, v).ret = RetTrue

\* C36 witness: set has just stored an identifier as the only entry of the
\* table, and the ledger, which is not empty, does not hold it.
C36_Witness ==
  /\ last = [op |-> "set", ret |-> RetTrue]
  /\ generated # <<>>
  /\ Len(map) = 1
  /\ map[1] = <<"b", IdALow>>
  /\ ~includes(generated, IdALow)

\* A batch names some key in two pairs, and all its identifiers differ, the
\* letter case ignored.
RepeatsKey(batch) ==
  /\ \E i, j \in 1..Len(batch) : i # j /\ batch[i][1] = batch[j][1]
  /\ \A i, j \in 1..Len(batch) :
       LowerChars(batch[i][2]) = LowerChars(batch[j][2]) => i = j

\* C37: in every state, restore of a batch of valid pairs that names a key
\* twice with different identifiers returns true; the keys of the table are
\* the keys of the batch in the order of their first pairs, no key twice;
\* each key maps to the identifier of its last pair, in lower case; and the
\* ledger is the identifiers of all pairs, in lower case and in batch order.
C37_RestoreRepeatedKey ==
  pc = "idle" =>
    \A batch \in OrderBatches :
      RepeatsKey(batch) =>
        \A r \in {restore(map, generated, batch)} :
          /\ r.ret = RetTrue
          /\ keys(r.map) = keysAt(batch, firstAt(batch))
          /\ \A i \in 1..Len(lastAt(batch)) :
               getUIDFor(r.map, batch[lastAt(batch)[i]][1]) =
                 RetUid(LowerChars(batch[lastAt(batch)[i]][2]))
          /\ r.generated = [i \in 1..Len(batch) |-> LowerChars(batch[i][2])]

\* C37 witness: restore has returned true for a batch of three pairs whose
\* first and last name the same key: the table has two entries, the first
\* with the identifier of the third pair, and the ledger has three.
C37_Witness ==
  /\ last = [op |-> "restore", ret |-> RetTrue]
  /\ map = << <<"a", IdR>>, <<"b", IdFLow>> >>
  /\ generated = <<IdALow, IdFLow, IdR>>

\* While only generate was called, getExisting() is the ledger the generator
\* was constructed with, as it was passed, followed by the identifiers
\* generate returned, in call order.
LedgerResumed ==
  returned.only => getExisting(generated).val = returned.initial \o returned.ids

\* C38 as stated: a generator constructed with the ledger L has L as its
\* ledger, whatever L holds; getExisting() is L followed by the identifiers
\* generate returned, in call order; and generate never returns a member of L.
C38_NeverReturnsInitial ==
  /\ []LedgerResumed
  /\ [][(pc = "generate" /\ pc' = "idle")
          => ~includes(returned.initial, last'.ret.id)]_vars

\* C38 as amended: the same, generate returning no member of L as long as
\* setExisting was not called.
C38_NeverReturnsInitialUntilReplaced ==
  /\ []LedgerResumed
  /\ [][(pc = "generate" /\ pc' = "idle" /\ returned.only)
          => ~includes(returned.initial, last'.ret.id)]_vars

\* C38 witness: a generator constructed with a string that is no identifier
\* and an identifier has returned from generate, after it rejected a
\* candidate, and its ledger is the two followed by what it returned.
C38_Witness ==
  /\ returned.only
  /\ returned.initial = <<IdBad, IdFLow>>
  /\ last.op = "generate"
  /\ last.ret.tag = "uid"
  /\ retried
  /\ generated = <<IdBad, IdFLow, last.ret.id>>

====
